---- MODULE Spec2Model ----
(***************************************************************************)
(* WeSellYourData: the Express ledger of src/website3/server.js (lines     *)
(* 1-224), the website3 dashboard script that follows it in the same file  *)
(* (lines 226-842) and the website2 dashboard script and /pi-status store  *)
(* embedded in src/website2/README.md (lines 291-932).                     *)
(***************************************************************************)
EXTENDS Integers, Sequences, FiniteSets, TLC

(***************************************************************************)
(* JavaScript numbers.  Every number the handlers see here is a            *)
(* non-negative integer below 2^53, so IEEE doubles are exact; TLC's       *)
(* integers are 32 bits wide, so a number is kept as two limbs in base     *)
(* 10^6: [hi |-> h, lo |-> l] stands for h * 10^6 + l with 0 <= l < 10^6.  *)
(***************************************************************************)
Num(h, l) == [hi |-> h, lo |-> l]

NumZero == Num(0, 0)

NumLT(a, b) == a.hi < b.hi \/ (a.hi = b.hi /\ a.lo < b.lo)

NumLE(a, b) == a = b \/ NumLT(a, b)

\* a + d for an integer d of at most a few days of milliseconds
NumPlus(a, d) ==
    LET s == a.lo + d
    IN  Num(a.hi + (s \div 1000000), s % 1000000)

\* a * 1000 (a below 10^10, so the high limb stays below 10^7)
NumTimes1000(a) ==
    Num(a.hi * 1000 + (a.lo \div 1000), (a.lo % 1000) * 1000)

\* a - b for a >= b
NumMinus(a, b) ==
    IF a.lo >= b.lo THEN Num(a.hi - b.hi, a.lo - b.lo)
    ELSE Num(a.hi - b.hi - 1, a.lo + 1000000 - b.lo)

\* Math.abs(a - b)
NumAbsDiff(a, b) == IF NumLE(b, a) THEN NumMinus(a, b) ELSE NumMinus(b, a)

(***************************************************************************)
(* JavaScript values as they arrive in a JSON body or are held in an       *)
(* entry: undefined (an absent field), a string, a number, NaN.            *)
(***************************************************************************)
Undefined == [type |-> "undefined", num |-> NumZero, str |-> ""]

NaN == [type |-> "nan", num |-> NumZero, str |-> ""]

StrV(s) == [type |-> "string", num |-> NumZero, str |-> s]

NumV(n) == [type |-> "number", num |-> n, str |-> ""]

\* typeof v === 'number' (true of NaN as well)
IsNumber(v) == v.type \in {"number", "nan"}

IsString(v) == v.type = "string"

\* !!v : undefined, "", 0 and NaN are falsy
Truthy(v) ==
    CASE v.type = "string" -> v.str # ""
      [] v.type = "number" -> v.num # NumZero
      [] OTHER -> FALSE

\* new Date(s).getTime() on the date strings the model feeds in: an ISO
\* date-time parses to its epoch milliseconds, anything else to NaN.
DateParse(s) ==
    CASE s = "2024-03-09T16:00:00.500Z" -> NumV(Num(1710000, 500))
      [] s = "2024-03-09T16:00:02.000Z" -> NumV(Num(1710000, 2000))
      [] OTHER -> NaN

\* String.prototype.toLowerCase on the action strings the model feeds in
ToLowerCase(s) ==
    CASE s = "IN" -> "in"
      [] s = "Out" -> "out"
      [] s = "OUT" -> "out"
      [] OTHER -> s

(***************************************************************************)
(* Program constants                                                       *)
(***************************************************************************)
MAX_HISTORY == 100

\* the tolerance window of duplicate suppression, in milliseconds
TOLERANCE_MS == 1000

\* entries kept in a dashboard's activityHistory
DISPLAY_LIMIT == 50

\* the seconds / milliseconds threshold 10000000000 of the server
SecondsThreshold == Num(10000, 0)

(***************************************************************************)
(* Bounds of the model                                                     *)
(***************************************************************************)
\* requests with freely chosen input per run
MaxRequests == 2

\* dashboard steps (batches processed, clears) per run
MaxProcessed == 2

\* entries of one batch handed to the website2 dashboard
MaxBatch == 1

\* clicks on the monitoring and save buttons of a dashboard per run
MaxClicks == 3

VARIABLES
    latestData,   \* server: the retained history, newest first
    now,          \* the wall clock, the last value Date.now() returned
    res,          \* server: the response sent last
    arrived,      \* history variable: entries accepted since the last clear, in arrival order
    deduped,      \* history variable: the ledger the specification's ingestion would hold
    requests,     \* history variable: number of freely chosen requests handled
    w3Sessions,   \* website3 dashboard: STATE.activeSessions, name -> session
    w3History,    \* website3 dashboard: STATE.activityHistory, newest first
    w3Statistics, \* website3 dashboard: STATE.statistics
    w2Sessions,   \* website2 dashboard: STATE.activeSessions, name -> session
    w2History,    \* website2 dashboard: STATE.activityHistory, newest first
    processed,    \* history variable: number of dashboard steps taken
    inflight,     \* requests sent and not yet answered, id -> request
    held,         \* a client: the result of its last GET /api/data
    w2Monitor,    \* website2 dashboard: CONFIG.isMonitoring, STATE.updateInterval and the timers
    piStatus,     \* server: the single bit shared with the Raspberry Pi
    w3Monitor     \* website3 dashboard: CONFIG, STATE.updateInterval, the connection badge, fetches in flight

serverVars == <<latestData, res, arrived, deduped, requests, held, piStatus>>

w3Vars == <<w3Sessions, w3History, w3Statistics, w3Monitor>>

w2Vars == <<w2Sessions, w2History, w2Monitor>>

dashVars == <<w3Vars, w2Vars, processed>>

vars == <<serverVars, now, dashVars, inflight>>

(***************************************************************************)
(* Server: POST /fingerprint-data                                          *)
(***************************************************************************)
\* JavaScript null, sent where a response carries no entry
Null == [type |-> "null", num |-> NumZero, str |-> ""]

\* a response: HTTP status, the error text of a 4xx, the entry or data sent
Response(status, error, entry, count, data) ==
    [status |-> status, error |-> error, entry |-> entry, count |-> count, data |-> data]

NoResponse == Response(0, "", Null, 0, <<>>)

\* JSON.stringify of a value inside res.json: NaN is written as null
JSONValue(v) == IF v.type = "nan" THEN Null ELSE v

\* an entry as res.json writes it
JSONEntry(e) ==
    IF e = Null THEN Null
    ELSE [name |-> e.name, action |-> e.action,
          timestamp |-> JSONValue(e.timestamp), receivedAt |-> e.receivedAt]

\* an array of entries as res.json writes it
JSONData(history) == [i \in 1..Len(history) |-> JSONEntry(history[i])]

\* mutant: the action is only required to be present
ValidationError_AnyAction(data) ==
    IF ~Truthy(data.name) \/ ~Truthy(data.action) \/ ~Truthy(data.timestamp)
    THEN "Invalid data format. Required: name, action, timestamp"
    ELSE ""

\* mutant: the timestamp is optional
ValidationError_TimestampOptional(data) ==
    IF ~Truthy(data.name) \/ ~Truthy(data.action)
    THEN "Invalid data format. Required: name, action, timestamp"
    ELSE IF data.action \notin {StrV("in"), StrV("out")}
         THEN "Invalid action. Must be \"in\" or \"out\""
         ELSE ""

\* the two validation returns; "" when the body passes both
ValidationError(data) ==
    IF ~Truthy(data.name) \/ ~Truthy(data.action) \/ ~Truthy(data.timestamp)
    THEN "Invalid data format. Required: name, action, timestamp"
    ELSE IF data.action \notin {StrV("in"), StrV("out")}
         THEN "Invalid action. Must be \"in\" or \"out\""
         ELSE ""

\* mutant: the threshold itself is read as seconds (<= for <)
NormalizeTimestamp_ThresholdInclusive(timestamp) ==
    IF timestamp.type = "number" /\ NumLE(timestamp.num, SecondsThreshold)
    THEN NumV(NumTimes1000(timestamp.num))
    ELSE IF IsString(timestamp)
         THEN DateParse(timestamp.str)
         ELSE timestamp

\* Normalize timestamp (convert to milliseconds if needed)
NormalizeTimestamp(timestamp) ==
    IF timestamp.type = "number" /\ NumLT(timestamp.num, SecondsThreshold)
    THEN NumV(NumTimes1000(timestamp.num))
    ELSE IF IsString(timestamp)
         THEN DateParse(timestamp.str)
         ELSE timestamp

\* Create standardized entry; dateNow is what Date.now() returns
MakeEntry(data, dateNow) ==
    [name |-> data.name,
     action |-> data.action,
     timestamp |-> NormalizeTimestamp(data.timestamp),
     receivedAt |-> NumV(dateNow)]

\* mutant: Array.prototype.push for unshift
Unshift_Push(history, entry) == Append(history, entry)

\* Array.prototype.unshift
Unshift(history, entry) == <<entry>> \o history

\* mutant: the slice keeps one entry too many
TrimHistory_OneTooMany(history) ==
    IF Len(history) > MAX_HISTORY THEN SubSeq(history, 1, MAX_HISTORY + 1) ELSE history

\* mutant: the trim evicts the second oldest event and keeps the oldest
TrimHistory_KeepsOldest(history) ==
    IF Len(history) > MAX_HISTORY
    THEN SubSeq(history, 1, MAX_HISTORY - 1) \o <<history[Len(history)]>>
    ELSE history

\* Trim to max history
TrimHistory(history) ==
    IF Len(history) > MAX_HISTORY THEN SubSeq(history, 1, MAX_HISTORY) ELSE history

(***************************************************************************)
(* History variable: the ledger as the specification describes it          *)
(***************************************************************************)
\* two events share an identity: same name, same action, instants less
\* than the tolerance window apart
SameIdentity(e, f) ==
    /\ e.name = f.name
    /\ e.action = f.action
    /\ e.timestamp.type = "number"
    /\ f.timestamp.type = "number"
    /\ NumLT(NumAbsDiff(e.timestamp.num, f.timestamp.num), Num(0, TOLERANCE_MS))

\* the specification's ingestion of one accepted event e: a duplicate of a
\* retained event is dropped, anything else is prepended and the history
\* trimmed to the bound
DedupIngest(ledger, e) ==
    IF \E i \in 1..Len(ledger) : SameIdentity(ledger[i], e)
    THEN ledger
    ELSE SubSeq(<<e>> \o ledger, 1,
                IF Len(ledger) + 1 > MAX_HISTORY THEN MAX_HISTORY ELSE Len(ledger) + 1)

\* mutant: the entry is stored before the body is validated
PostFingerprintData_StoreFirst(data, d) ==
    LET dateNow == NumPlus(now, d)
        error == ValidationError(data)
        entry == MakeEntry(data, dateNow)
    IN  /\ now' = dateNow
        /\ UNCHANGED <<held, piStatus>>
        /\ latestData' = TrimHistory(Unshift(latestData, entry))
        /\ arrived' = Append(arrived, entry)
        /\ deduped' = DedupIngest(deduped, entry)
        /\ res' = IF error # "" THEN Response(400, error, Null, 0, <<>>)
                  ELSE Response(200, "", JSONEntry(entry), 0, <<>>)

\* mutant: the response echoes the body as it was submitted
PostFingerprintData_EchoBody(data, d) ==
    LET dateNow == NumPlus(now, d)
        error == ValidationError(data)
        entry == MakeEntry(data, dateNow)
    IN  /\ now' = dateNow
        /\ UNCHANGED <<held, piStatus>>
        /\ IF error # ""
           THEN /\ res' = Response(400, error, Null, 0, <<>>)
                /\ UNCHANGED <<latestData, arrived, deduped>>
           ELSE /\ latestData' = TrimHistory(Unshift(latestData, entry))
                /\ res' = Response(200, "",
                                   JSONEntry([entry EXCEPT !.timestamp = data.timestamp]), 0, <<>>)
                /\ arrived' = Append(arrived, entry)
                /\ deduped' = DedupIngest(deduped, entry)

\* the handler, run d milliseconds after the clock was last read
PostFingerprintData(data, d) ==
    LET dateNow == NumPlus(now, d)
        error == ValidationError(data)
        entry == MakeEntry(data, dateNow)
    IN  /\ now' = dateNow
        /\ UNCHANGED <<held, piStatus>>
        /\ IF error # ""
           THEN /\ res' = Response(400, error, Null, 0, <<>>)
                /\ UNCHANGED <<latestData, arrived, deduped>>
           ELSE /\ latestData' = TrimHistory(Unshift(latestData, entry))
                /\ res' = Response(200, "", JSONEntry(entry), 0, <<>>)
                /\ arrived' = Append(arrived, entry)
                /\ deduped' = DedupIngest(deduped, entry)

(***************************************************************************)
(* Server: GET /api/data, GET /api/data/latest, DELETE /api/data           *)
(***************************************************************************)
\* listRecent(): the data field of GET /api/data
ListRecent == latestData

\* latest(): latestData[0] || null
Latest == IF Len(latestData) > 0 THEN latestData[1] ELSE Null

\* mutant: the caller is handed the array itself
Snapshot_Reference(history) == [ref |-> TRUE, value |-> <<>>]

\* what the caller of GET /api/data is handed: the text res.json wrote when
\* the handler ran, not the array
Snapshot(history) == [ref |-> FALSE, value |-> JSONData(history)]

\* what a client reads in the result it holds
HeldView == IF held.ref THEN JSONData(latestData) ELSE held.value

GetData(d) ==
    /\ now' = NumPlus(now, d)
    /\ res' = Response(200, "", Null, Len(latestData), JSONData(ListRecent))
    /\ held' = Snapshot(ListRecent)
    /\ UNCHANGED <<latestData, arrived, deduped, piStatus>>

\* mutant: Array.prototype.shift for the read of index 0
GetLatest_Shift(d) ==
    /\ now' = NumPlus(now, d)
    /\ res' = Response(200, "", JSONEntry(Latest), 0, <<>>)
    /\ latestData' = IF latestData = <<>> THEN <<>> ELSE Tail(latestData)
    /\ UNCHANGED <<arrived, deduped, held, piStatus>>

GetLatest(d) ==
    /\ now' = NumPlus(now, d)
    /\ res' = Response(200, "", JSONEntry(Latest), 0, <<>>)
    /\ UNCHANGED <<latestData, arrived, deduped, held, piStatus>>

\* mutant: the count is taken after the history is emptied
DeleteData_CountAfter(d) ==
    /\ now' = NumPlus(now, d)
    /\ latestData' = <<>>
    /\ res' = Response(200, "", Null, 0, <<>>)
    /\ arrived' = <<>>
    /\ deduped' = <<>>
    /\ UNCHANGED <<held, piStatus>>

\* the response's count is the n of the message `Cleared n entries`
DeleteData(d) ==
    LET previousCount == Len(latestData)
    IN  /\ now' = NumPlus(now, d)
        /\ latestData' = <<>>
        /\ res' = Response(200, "", Null, previousCount, <<>>)
        /\ arrived' = <<>>
        /\ deduped' = <<>>
        /\ UNCHANGED <<held, piStatus>>

(***************************************************************************)
(* Server: GET /api/stats, GET /health                                     *)
(***************************************************************************)
\* 24 * 60 * 60 * 1000
DayMs == Num(86, 400000)

\* new Date(y, m, d).getTime() of the day of n: the local midnight before n.
\* The process runs in UTC, where midnights are the multiples of 86400 s.
TodayStart(n) ==
    LET secs == n.hi * 1000 + (n.lo \div 1000)
        midnight == secs - (secs % 86400)
    IN  Num(midnight \div 1000, (midnight % 1000) * 1000)

\* entry.timestamp >= bound; false of NaN
AtOrAfter(timestamp, bound) ==
    timestamp.type = "number" /\ NumLE(bound, timestamp.num)

\* history.filter(keep).length for the two filters of the handler
CountSince(history, bound, actions) ==
    Cardinality({i \in 1..Len(history) :
                    /\ AtOrAfter(history[i].timestamp, bound)
                    /\ history[i].action \in actions})

\* mutant: totalEntries counts every event accepted since the last clear
Statistics_Lifetime(history, dateNow) ==
    [totalEntries |-> Len(arrived),
     signInsToday |-> CountSince(history, TodayStart(dateNow), {StrV("in")}),
     signOutsToday |-> CountSince(history, TodayStart(dateNow), {StrV("out")}),
     entriesLast24h |-> CountSince(history, NumMinus(dateNow, DayMs), {StrV("in"), StrV("out")})]

\* the stats object of GET /api/stats, computed at the instant dateNow
Statistics(history, dateNow) ==
    [totalEntries |-> Len(history),
     signInsToday |-> CountSince(history, TodayStart(dateNow), {StrV("in")}),
     signOutsToday |-> CountSince(history, TodayStart(dateNow), {StrV("out")}),
     entriesLast24h |-> CountSince(history, NumMinus(dateNow, DayMs), {StrV("in"), StrV("out")})]

StatsResponse(stats) ==
    [status |-> 200, error |-> "", entry |-> Null, count |-> 0, data |-> <<>>,
     stats |-> stats]

HealthResponse(entriesStored) ==
    [status |-> 200, error |-> "", entry |-> Null, count |-> 0, data |-> <<>>,
     entriesStored |-> entriesStored]

GetStats(d) ==
    /\ now' = NumPlus(now, d)
    /\ res' = StatsResponse(Statistics(latestData, now'))
    /\ UNCHANGED <<latestData, arrived, deduped, held, piStatus>>

GetHealth(d) ==
    /\ now' = NumPlus(now, d)
    /\ res' = HealthResponse(Len(latestData))
    /\ UNCHANGED <<latestData, arrived, deduped, held, piStatus>>

(***************************************************************************)
(* The single bit shared with the Raspberry Pi                             *)
(***************************************************************************)
\* res.json({ status: piStatus })
PiStatusRead(value) ==
    [status |-> 200, error |-> "", entry |-> Null, count |-> 0, data |-> <<>>,
     piStatus |-> value]

\* res.json({ ok: true, status: piStatus })
PiStatusSet(value) ==
    [status |-> 200, error |-> "", entry |-> Null, count |-> 0, data |-> <<>>,
     ok |-> TRUE, piStatus |-> value]

\* res.status(400).json({ ok: false, error: 'status must be 0 or 1' })
PiStatusRejected ==
    [status |-> 400, error |-> "status must be 0 or 1", entry |-> Null, count |-> 0,
     data |-> <<>>, ok |-> FALSE]

\* GET /pi-status
GetPiStatus ==
    /\ res' = PiStatusRead(piStatus)
    /\ UNCHANGED <<latestData, arrived, deduped, held, piStatus, now>>

\* mutant: any number is stored
PostPiStatus_AnyNumber(status) ==
    /\ IF status.type = "number"
       THEN /\ piStatus' = status.num.lo
            /\ res' = PiStatusSet(piStatus')
       ELSE /\ res' = PiStatusRejected
            /\ UNCHANGED piStatus
    /\ UNCHANGED <<latestData, arrived, deduped, held, now>>

\* POST /pi-status with req.body.status = status
PostPiStatus(status) ==
    /\ IF status = NumV(Num(0, 0)) \/ status = NumV(Num(0, 1))
       THEN /\ piStatus' = status.num.lo
            /\ res' = PiStatusSet(piStatus')
       ELSE /\ res' = PiStatusRejected
            /\ UNCHANGED piStatus
    /\ UNCHANGED <<latestData, arrived, deduped, held, now>>

(***************************************************************************)
(* Inputs                                                                  *)
(***************************************************************************)
Names == {StrV("Alice"), StrV("Bob"), StrV(""), Undefined}

Actions == {StrV("in"), StrV("out"), StrV("IN"), StrV("left"), Undefined}

Timestamps ==
    {Undefined, NumV(NumZero), StrV(""),
     NumV(Num(1710, 0)),          \* 1710000000, epoch seconds
     NumV(Num(1710000, 123)),     \* 1710000000123, epoch milliseconds
     NumV(Num(9999, 999999)),     \* 9999999999, the largest value read as seconds
     NumV(Num(10000, 0)),         \* 10000000000, the smallest read as milliseconds
     NumV(Num(0, 123)),           \* 123
     StrV("2024-03-09T16:00:00.500Z"),
     StrV("not-a-date")}

\* every name with every action, and every timestamp under a valid name and action
Bodies ==
    [name : Names, action : Actions, timestamp : {NumV(Num(0, 123)), Undefined}]
    \cup [name : {StrV("Alice")}, action : {StrV("in"), StrV("out")}, timestamp : Timestamps]

\* milliseconds between two requests
Elapsed == {1}

\* the clock when the server starts: 1710000001234
NowStart == Num(1710000, 1234)

(***************************************************************************)
(* The server under freely chosen requests                                 *)
(***************************************************************************)
\* an empty Map
EmptyMap == [k \in {} |-> Null]

\* website2 after init(): monitoring is off, no interval timer is set, and
\* the auto-start waits in one pending setTimeout(startMonitoring, 500)
MonitorAfterInit ==
    [isMonitoring |-> FALSE,
     updateInterval |-> 0,     \* STATE.updateInterval: a timer id, 0 for null
     timers |-> {},            \* ids of the interval timers that are live
     timeouts |-> 1,           \* pending setTimeout(startMonitoring, 500)
     nextId |-> 1,             \* the id the next setInterval returns
     clicks |-> 0]             \* history: user actions taken

\* website3 after init() with no saved configuration: no device IP,
\* monitoring off, the badge reads Disconnected
W3MonitorAfterInit ==
    [deviceIP |-> FALSE,       \* CONFIG.deviceIP is a non-empty string
     isMonitoring |-> FALSE,
     updateInterval |-> 0,     \* STATE.updateInterval: a timer id, 0 for null
     timers |-> {},            \* ids of the interval timers that are live
     nextId |-> 1,             \* the id the next setInterval returns
     connectionStatus |-> "disconnected",
     fetching |-> 0,           \* fetches of fetchData awaiting their response
     clicks |-> 0]             \* history: user actions taken

Init ==
    /\ latestData = <<>>
    /\ now = NowStart
    /\ res = NoResponse
    /\ arrived = <<>>
    /\ deduped = <<>>
    /\ requests = 0
    /\ w3Sessions = EmptyMap
    /\ w3History = <<>>
    /\ w3Statistics = [totalEntries |-> 0, signInsToday |-> 0, signOutsToday |-> 0]
    /\ w2Sessions = EmptyMap
    /\ w2History = <<>>
    /\ processed = 0
    /\ inflight = EmptyMap
    /\ held = Snapshot(<<>>)
    /\ w2Monitor = MonitorAfterInit
    /\ piStatus = 0
    /\ w3Monitor = W3MonitorAfterInit

\* one freely chosen request, counted against the bound
Counted ==
    /\ requests < MaxRequests
    /\ requests' = requests + 1
    /\ UNCHANGED <<dashVars, inflight>>

IngestFrom(bodies) ==
    Counted /\ \E data \in bodies, d \in Elapsed : PostFingerprintData(data, d)

Ingest == IngestFrom(Bodies)

ReadData == Counted /\ \E d \in Elapsed : GetData(d)

ReadLatest == Counted /\ \E d \in Elapsed : GetLatest(d)

Clear == Counted /\ \E d \in Elapsed : DeleteData(d)

ReadStats == Counted /\ \E d \in Elapsed : GetStats(d)

ReadHealth == Counted /\ \E d \in Elapsed : GetHealth(d)

Next == Ingest \/ ReadData \/ ReadLatest \/ Clear \/ ReadStats \/ ReadHealth

Spec == Init /\ [][Next]_vars

(***************************************************************************)
(* The server filled to its bound: MAX_HISTORY scans of one device, one     *)
(* second apart, and freely chosen requests after them.                    *)
(***************************************************************************)
\* the i-th scan: epoch seconds 1709000000 + i, sign-ins and sign-outs alternating
FillBody(i) ==
    [name |-> StrV("Alice"),
     action |-> IF i % 2 = 1 THEN StrV("in") ELSE StrV("out"),
     timestamp |-> NumV(Num(1709, i))]

\* the requests that follow the fill: two instants 123 ms apart, an absent timestamp
RetentionBodies ==
    [name : {StrV("Alice"), StrV("")},
     action : {StrV("in"), StrV("out")},
     timestamp : {NumV(Num(1710, 0)), NumV(Num(1710000, 123)), Undefined}]

Filled == requests > 0 \/ Len(latestData) >= MAX_HISTORY

FillIngest ==
    /\ ~Filled
    /\ PostFingerprintData(FillBody(Len(arrived) + 1), 1)
    /\ UNCHANGED <<requests, dashVars, inflight>>

FilledIngest == Filled /\ IngestFrom(RetentionBodies)

FilledReadData == Filled /\ ReadData

FilledReadLatest == Filled /\ ReadLatest

FilledClear == Filled /\ Clear

FilledReadStats == Filled /\ ReadStats

FilledReadHealth == Filled /\ ReadHealth

NextRetention ==
    \/ FillIngest \/ FilledIngest \/ FilledReadData \/ FilledReadLatest \/ FilledClear
    \/ FilledReadStats \/ FilledReadHealth

SpecRetention == Init /\ [][NextRetention]_vars

(***************************************************************************)
(* The server's statistics around midnight.  The clock starts at           *)
(* 2024-03-09T16:00:01.234Z; the day began at 1709942400000 and ends at    *)
(* 1710028800000.                                                          *)
(***************************************************************************)
StatsTimestamps ==
    {NumV(Num(1709913, 600000)),   \* 1709913600000, 2024-03-08T16:00:00Z, over 24 h ago
     NumV(Num(1709942, 399000)),   \* 1709942399000, 2024-03-08T23:59:59Z
     NumV(Num(1709942, 401000)),   \* 1709942401000, 2024-03-09T00:00:01Z
     NumV(Num(1710028, 799000)),   \* 1710028799000, 2024-03-09T23:59:59Z
     NumV(Num(1710028, 801000)),   \* 1710028801000, 2024-03-10T00:00:01Z
     StrV("not-a-date")}

StatsBodies ==
    [name : {StrV("Alice")}, action : {StrV("in"), StrV("out")}, timestamp : StatsTimestamps]

\* milliseconds between two requests: one, or a day
StatsElapsed == {1, 86400000}

StatsIngest == IngestFrom(StatsBodies)

StatsRead == Counted /\ \E d \in StatsElapsed : GetStats(d)

NextStats == StatsIngest \/ StatsRead

SpecStats == Init /\ [][NextStats]_vars

(***************************************************************************)
(* Dashboards: the active-session Map and the display history              *)
(***************************************************************************)
\* mutant: a Map that holds the entry set last and nothing else
MapSet_Single(map, key, value) == [k \in {key} |-> value]

\* Map.prototype.set
MapSet(map, key, value) ==
    [k \in DOMAIN map \cup {key} |-> IF k = key THEN value ELSE map[k]]

\* Map.prototype.delete
MapDelete(map, key) == [k \in DOMAIN map \ {key} |-> map[k]]

\* mutant: the slice keeps one entry too many
AddToHistory_OneTooMany(history, entry) ==
    LET all == <<entry>> \o history
    IN  IF Len(all) > DISPLAY_LIMIT + 1 THEN SubSeq(all, 1, DISPLAY_LIMIT + 1) ELSE all

\* unshift, then keep only the first 50 entries
AddToHistory(history, entry) ==
    LET all == <<entry>> \o history
    IN  IF Len(all) > DISPLAY_LIMIT THEN SubSeq(all, 1, DISPLAY_LIMIT) ELSE all

(***************************************************************************)
(* website3 dashboard (src/website3/server.js, lines 226-842)              *)
(***************************************************************************)
\* data.timestamp || data.time
OrElse(a, b) == IF Truthy(a) THEN a ELSE b

\* parseTimestamp: the epoch milliseconds of the Date it returns
ParseTimestamp(timestamp, dateNow) ==
    IF ~Truthy(timestamp) THEN NumV(dateNow)
    ELSE IF /\ timestamp.type = "number"
            /\ NumLT(Num(1000, 0), timestamp.num)
            /\ NumLT(timestamp.num, Num(10000, 0))
         THEN NumV(NumTimes1000(timestamp.num))
    ELSE IF timestamp.type = "number" /\ NumLT(Num(1000000, 0), timestamp.num)
         THEN timestamp
    ELSE LET date == IF IsString(timestamp) THEN DateParse(timestamp.str) ELSE timestamp
         IN  IF date.type = "nan" THEN NumV(dateNow) ELSE date

\* mutant: a session already in the Map is kept
AddActiveSession_KeepFirst(sessions, entry) ==
    IF entry.name \in DOMAIN sessions THEN sessions
    ELSE MapSet(sessions, entry.name, [name |-> entry.name, startTime |-> entry.timestamp])

AddActiveSession(sessions, entry) ==
    MapSet(sessions, entry.name, [name |-> entry.name, startTime |-> entry.timestamp])

\* mutant: the session is left in the Map
RemoveActiveSession_Kept(sessions, name) == sessions

RemoveActiveSession(sessions, name) == MapDelete(sessions, name)

AddActivityEntry(history, entry) == AddToHistory(history, entry)

\* processData, run d milliseconds after the clock was last read
W3ProcessData(data, d) ==
    LET dateNow == NumPlus(now, d)
        entry == [name |-> data.name,
                  action |-> StrV(ToLowerCase(data.action.str)),
                  timestamp |-> ParseTimestamp(OrElse(data.timestamp, data.time), dateNow)]
        signIn == entry.action = StrV("in")
        signOut == entry.action = StrV("out")
    IN  /\ now' = dateNow
        /\ IF ~Truthy(data.name) \/ ~Truthy(data.action)
           THEN UNCHANGED <<w3Sessions, w3History, w3Statistics>>
           ELSE /\ w3Statistics' =
                      [totalEntries |-> w3Statistics.totalEntries + 1,
                       signInsToday |-> w3Statistics.signInsToday + (IF signIn THEN 1 ELSE 0),
                       signOutsToday |-> w3Statistics.signOutsToday + (IF signOut THEN 1 ELSE 0)]
                /\ w3Sessions' =
                      IF signIn THEN AddActiveSession(w3Sessions, entry)
                      ELSE IF signOut THEN RemoveActiveSession(w3Sessions, entry.name)
                      ELSE w3Sessions
                /\ w3History' = AddActivityEntry(w3History, entry)

\* clearActivity of website3: the display history only
W3ClearActivity ==
    /\ w3History' = <<>>
    /\ UNCHANGED <<w3Sessions, w3Statistics, now>>

(***************************************************************************)
(* website2 dashboard (src/website2/README.md, lines 291-932)              *)
(***************************************************************************)
\* Convert timestamp: the epoch milliseconds of the Date built (NaN for an
\* Invalid Date); JSON null and an absent field give the current time
ConvertTimestamp(timestamp, dateNow) ==
    IF IsNumber(timestamp) THEN timestamp
    ELSE IF IsString(timestamp) THEN DateParse(timestamp.str)
    ELSE NumV(dateNow)

\* mutant: <= 1000 for < 1000
WithinOneSecond_Inclusive(a, b) ==
    /\ a.type = "number"
    /\ b.type = "number"
    /\ NumLE(NumAbsDiff(a.num, b.num), Num(0, TOLERANCE_MS))

\* Math.abs(entry.timestamp - timestamp) < 1000; false when either is NaN
WithinOneSecond(a, b) ==
    /\ a.type = "number"
    /\ b.type = "number"
    /\ NumLT(NumAbsDiff(a.num, b.num), Num(0, TOLERANCE_MS))

\* Check if this entry is already in history
IsDuplicate(history, data, timestamp) ==
    \E i \in 1..Len(history) :
        /\ history[i].name = data.name
        /\ history[i].action = data.action
        /\ WithinOneSecond(history[i].timestamp, timestamp)

\* processEntry on the dashboard state st = [sessions, history]
ProcessEntry(st, data, dateNow) ==
    LET timestamp == ConvertTimestamp(data.timestamp, dateNow)
        entry == [name |-> data.name,
                  action |-> data.action,
                  timestamp |-> timestamp,
                  id |-> <<data.name, data.action, timestamp>>]
    IN  IF ~Truthy(data.name) \/ ~Truthy(data.action) THEN st
        ELSE IF IsDuplicate(st.history, data, timestamp) THEN st
        ELSE [sessions |->
                  IF entry.action = StrV("in")
                  THEN MapSet(st.sessions, entry.name,
                              [name |-> entry.name, startTime |-> entry.timestamp])
                  ELSE IF entry.action = StrV("out")
                       THEN MapDelete(st.sessions, entry.name)
                       ELSE st.sessions,
              history |-> AddToHistory(st.history, entry)]

\* dataArray.forEach(entry => processEntry(entry)), from index i on
RECURSIVE ForEachProcessEntry(_, _, _, _)
ForEachProcessEntry(st, dataArray, i, dateNow) ==
    IF i > Len(dataArray) THEN st
    ELSE ForEachProcessEntry(ProcessEntry(st, dataArray[i], dateNow), dataArray, i + 1, dateNow)

\* processDataBatch, run d milliseconds after the clock was last read
W2ProcessDataBatch(dataArray, d) ==
    LET dateNow == NumPlus(now, d)
        st == ForEachProcessEntry([sessions |-> w2Sessions, history |-> w2History],
                                  dataArray, 1, dateNow)
    IN  /\ now' = dateNow
        /\ w2Sessions' = st.sessions
        /\ w2History' = st.history

\* clearActivity of website2 (confirmed by the user): history and sessions
W2ClearActivity ==
    /\ w2History' = <<>>
    /\ w2Sessions' = EmptyMap
    /\ UNCHANGED now

(***************************************************************************)
(* The dashboards under freely chosen data                                 *)
(***************************************************************************)
\* what a device answers the website3 dashboard's GET
W3Data ==
    [name : {StrV("Alice"), StrV("Bob")}, action : {StrV("in"), StrV("out")},
     timestamp : {NumV(Num(1710000, 123)),     \* 1710000000123, epoch milliseconds
                  NumV(Num(1710, 0))},         \* 1710000000, epoch seconds
     time : {Undefined}]
    \cup [name : {StrV("Alice")}, action : {StrV("IN"), StrV("left"), Undefined},
          timestamp : {NumV(Num(1710000, 123))}, time : {Undefined}]
    \cup [name : {Undefined}, action : {StrV("in")},
          timestamp : {NumV(Num(1710000, 123))}, time : {Undefined}]
    \cup [name : {StrV("Alice")}, action : {StrV("in")},
          timestamp : {Undefined, StrV("not-a-date")},
          time : {Undefined, NumV(Num(1710, 2))}]

\* the elements of the data array of GET /api/data: entries as the server
\* holds them (a NaN timestamp is null in JSON), and a malformed one
W2Data ==
    [name : {StrV("Alice")}, action : {StrV("in")},
     timestamp : {NumV(Num(1710000, 123)),     \* 1710000000123
                  NumV(Num(1710000, 623)),     \* 500 ms later
                  NumV(Num(1710000, 1123)),    \* 1000 ms later
                  Null}]
    \cup [name : {StrV("Alice")}, action : {StrV("out")}, timestamp : {NumV(Num(1710000, 5000))}]
    \cup [name : {StrV("Bob")}, action : {StrV("in")}, timestamp : {NumV(Num(1710000, 123))}]
    \cup [name : {Undefined}, action : {StrV("in")}, timestamp : {NumV(Num(1710000, 123))}]

W2Batches == UNION {[1..n -> W2Data] : n \in 1..MaxBatch}

DashCounted ==
    /\ processed < MaxProcessed
    /\ processed' = processed + 1
    /\ UNCHANGED <<serverVars, inflight>>

W3Process ==
    /\ DashCounted
    /\ \E data \in W3Data, d \in Elapsed : W3ProcessData(data, d)
    /\ UNCHANGED <<w2Vars, w3Monitor>>

W3Clear == DashCounted /\ W3ClearActivity /\ UNCHANGED <<w2Vars, w3Monitor>>

W2Process ==
    /\ DashCounted
    /\ \E dataArray \in W2Batches, d \in Elapsed : W2ProcessDataBatch(dataArray, d)
    /\ UNCHANGED <<w3Vars, w2Monitor>>

W2Clear == DashCounted /\ W2ClearActivity /\ UNCHANGED <<w3Vars, w2Monitor>>

NextDash == W3Process \/ W3Clear \/ W2Process \/ W2Clear

SpecDash == Init /\ [][NextDash]_vars

(***************************************************************************)
(* The Pi's bit set and read between ingestions                            *)
(***************************************************************************)
\* values of req.body.status
PiStatuses == {NumV(Num(0, 0)), NumV(Num(0, 1)), NumV(Num(0, 2)), StrV("1"), Undefined}

SetPiStatus == Counted /\ \E status \in PiStatuses : PostPiStatus(status)

ReadPiStatus == Counted /\ GetPiStatus

NextPi == Ingest \/ SetPiStatus \/ ReadPiStatus

SpecPi == Init /\ [][NextPi]_vars

(***************************************************************************)
(* Numeric timestamps on both sides of each threshold, given to the        *)
(* server's ingestion and to the website3 dashboard's parseTimestamp.      *)
(***************************************************************************)
ParseTimestamps ==
    {NumV(Num(0, 123)),            \* 123
     NumV(Num(1000, 0)),           \* 1000000000
     NumV(Num(1000, 1)),           \* 1000000001
     NumV(Num(1710, 0)),           \* 1710000000
     NumV(Num(9999, 999999)),      \* 9999999999
     NumV(Num(10000, 0)),          \* 10000000000
     NumV(Num(1000000, 0)),        \* 1000000000000
     NumV(Num(1710000, 123))}      \* 1710000000123

ParseBodies == [name : {StrV("Alice")}, action : {StrV("in")}, timestamp : ParseTimestamps]

ParseData ==
    [name : {StrV("Alice")}, action : {StrV("in")}, timestamp : ParseTimestamps,
     time : {Undefined}]

ParseIngest == IngestFrom(ParseBodies)

ParseProcess ==
    /\ DashCounted
    /\ \E data \in ParseData, d \in Elapsed : W3ProcessData(data, d)
    /\ UNCHANGED <<w2Vars, w3Monitor>>

NextParse == ParseIngest \/ ParseProcess

SpecParse == Init /\ [][NextParse]_vars

(***************************************************************************)
(* The dashboards with their display histories filled to the bound: one    *)
(* sign-in of Carol, then scans of Dave one second apart, and freely       *)
(* chosen data after them.                                                 *)
(***************************************************************************)
\* the i-th answer of the device to website3: epoch seconds 1709000000 + i
W3FillData(i) ==
    [name |-> IF i = 1 THEN StrV("Carol") ELSE StrV("Dave"),
     action |-> IF i % 2 = 1 THEN StrV("in") ELSE StrV("out"),
     timestamp |-> NumV(Num(1709, i)),
     time |-> Undefined]

\* the i-th entry handed to website2: epoch milliseconds 1709000000000 + 1000 i
W2FillData(i) ==
    [name |-> IF i = 1 THEN StrV("Carol") ELSE StrV("Dave"),
     action |-> IF i % 2 = 1 THEN StrV("in") ELSE StrV("out"),
     timestamp |-> NumV(Num(1709000, 1000 * i))]

DashFilled ==
    \/ processed > 0
    \/ Len(w3History) >= DISPLAY_LIMIT /\ Len(w2History) >= DISPLAY_LIMIT

W3Fill ==
    /\ ~DashFilled
    /\ Len(w3History) < DISPLAY_LIMIT
    /\ W3ProcessData(W3FillData(Len(w3History) + 1), 1)
    /\ UNCHANGED <<w2Vars, w3Monitor, processed, serverVars, inflight>>

W2Fill ==
    /\ ~DashFilled
    /\ Len(w3History) >= DISPLAY_LIMIT
    /\ W2ProcessDataBatch(<<W2FillData(Len(w2History) + 1)>>, 1)
    /\ UNCHANGED <<w3Vars, w2Monitor, processed, serverVars, inflight>>

FilledW3Process == DashFilled /\ W3Process

FilledW3Clear == DashFilled /\ W3Clear

FilledW2Process == DashFilled /\ W2Process

FilledW2Clear == DashFilled /\ W2Clear

NextDashFill ==
    W3Fill \/ W2Fill \/ FilledW3Process \/ FilledW3Clear \/ FilledW2Process \/ FilledW2Clear

SpecDashFill == Init /\ [][NextDashFill]_vars

(***************************************************************************)
(* The website2 dashboard polling the server: devices post events, the     *)
(* dashboard's fetchData reads GET /api/data and hands the data array to   *)
(* processDataBatch, then reads GET /api/stats for its statistics panel.   *)
(***************************************************************************)
PollBodies ==
    [name : {StrV("Alice"), StrV("Bob")},
     action : {StrV("in"), StrV("out")},
     timestamp : {NumV(Num(1710000, 123)),     \* 1710000000123, epoch milliseconds
                  NumV(Num(1710, 2)),          \* 1710000002, epoch seconds
                  StrV("not-a-date")}]

\* milliseconds between two polls: the restart delay of saveConfiguration,
\* or the default refresh interval of 3 s
PollElapsed == {500, 3000}

\* fetchData, run d milliseconds after the clock was last read
W2FetchData(d) ==
    /\ now' = NumPlus(now, d)
    /\ held' = Snapshot(ListRecent)
    /\ W2ProcessDataBatch(held'.value, d)
    /\ res' = StatsResponse(Statistics(latestData, now'))
    /\ UNCHANGED <<latestData, arrived, deduped, piStatus>>

PollIngest == IngestFrom(PollBodies)

PollClear == Clear

W2Poll ==
    /\ processed < MaxProcessed
    /\ processed' = processed + 1
    /\ \E d \in PollElapsed : W2FetchData(d)
    /\ UNCHANGED <<requests, w3Vars, w2Monitor, inflight>>

NextPoll == PollIngest \/ PollClear \/ W2Poll

SpecPoll == Init /\ [][NextPoll]_vars

\* the user clears the website2 display between polls
PollW2Clear ==
    /\ W2ClearActivity
    /\ UNCHANGED <<serverVars, w3Vars, w2Monitor, processed, inflight>>

NextPollClear == PollIngest \/ PollClear \/ W2Poll \/ PollW2Clear

SpecPollClear == Init /\ [][NextPollClear]_vars

(***************************************************************************)
(* The monitoring control of the website2 dashboard: the auto-start that   *)
(* init() delays by 500 ms, clicks on the monitoring button, saves of the  *)
(* configuration and the ticks of the interval timers, in any order.       *)
(***************************************************************************)
\* startMonitoring on the state m: the timer set before is not cleared
Started(m) ==
    [m EXCEPT !.isMonitoring = TRUE,
              !.updateInterval = m.nextId,
              !.timers = @ \cup {m.nextId},
              !.nextId = @ + 1]

\* stopMonitoring on the state m: clearInterval(STATE.updateInterval)
Stopped(m) ==
    [m EXCEPT !.isMonitoring = FALSE,
              !.timers = IF m.updateInterval # 0 THEN @ \ {m.updateInterval} ELSE @,
              !.updateInterval = 0]

\* a click of the user
Clicked(m) == [m EXCEPT !.clicks = @ + 1]

\* startMonitoring from the state m, with its immediate fetchData
StartMonitoring(m, d) ==
    /\ w2Monitor' = Started(m)
    /\ W2FetchData(d)

\* stopMonitoring, or any step of the monitor that polls nothing
MonitorOnly(m) ==
    /\ w2Monitor' = m
    /\ UNCHANGED <<latestData, res, arrived, deduped, held, piStatus, now, w2Sessions, w2History>>

ToggleMonitoring ==
    /\ w2Monitor.clicks < MaxClicks
    /\ IF w2Monitor.isMonitoring
       THEN MonitorOnly(Stopped(Clicked(w2Monitor)))
       ELSE \E d \in Elapsed : StartMonitoring(Clicked(w2Monitor), d)
    /\ UNCHANGED <<requests, processed, w3Vars, inflight>>

\* saveConfiguration: Restart monitoring if active
SaveConfiguration ==
    /\ w2Monitor.clicks < MaxClicks
    /\ IF w2Monitor.isMonitoring
       THEN MonitorOnly([Stopped(Clicked(w2Monitor)) EXCEPT !.timeouts = @ + 1])
       ELSE MonitorOnly(Clicked(w2Monitor))
    /\ UNCHANGED <<requests, processed, w3Vars, inflight>>

\* a pending setTimeout(startMonitoring, 500) fires
TimeoutFires ==
    /\ w2Monitor.timeouts > 0
    /\ StartMonitoring([w2Monitor EXCEPT !.timeouts = @ - 1], 500)
    /\ UNCHANGED <<requests, processed, w3Vars, inflight>>

\* a live interval timer fires: fetchData
TimerTick ==
    /\ w2Monitor.timers # {}
    /\ processed < MaxProcessed
    /\ processed' = processed + 1
    /\ W2FetchData(3000)
    /\ UNCHANGED <<w2Monitor, requests, w3Vars, inflight>>

NextMonitor == ToggleMonitoring \/ SaveConfiguration \/ TimeoutFires \/ TimerTick

SpecMonitor == Init /\ [][NextMonitor]_vars

(***************************************************************************)
(* The monitoring control of the website3 dashboard: saves of the          *)
(* configuration, clicks on the monitoring button, ticks of the interval   *)
(* timer, and the fetches of fetchData, each of which is answered (or      *)
(* fails) some time after it was sent.                                     *)
(***************************************************************************)
\* fetchData up to its first await: nothing when monitoring is off
W3FetchDataStart(m) ==
    IF ~m.isMonitoring THEN m ELSE [m EXCEPT !.fetching = @ + 1]

\* startMonitoring with a device IP configured
W3Started(m) ==
    LET fetched == W3FetchDataStart([m EXCEPT !.isMonitoring = TRUE])
    IN  [fetched EXCEPT !.updateInterval = m.nextId,
                        !.timers = @ \cup {m.nextId},
                        !.nextId = @ + 1]

W3StartMonitoring(m) == IF ~m.deviceIP THEN m ELSE W3Started(m)

W3Stopped(m) ==
    [m EXCEPT !.isMonitoring = FALSE,
              !.timers = IF m.updateInterval # 0 THEN @ \ {m.updateInterval} ELSE @,
              !.updateInterval = 0,
              !.connectionStatus = "disconnected"]

\* a step of the monitoring control alone
W3MonitorOnly(m) ==
    /\ w3Monitor' = m
    /\ UNCHANGED <<serverVars, now, w3Sessions, w3History, w3Statistics, w2Vars,
                   processed, inflight>>

\* fetches not yet answered and data already processed stay within the bound
W3FetchBudget == w3Monitor.fetching + processed < MaxProcessed

W3SaveConfiguration ==
    /\ w3Monitor.clicks < MaxClicks
    /\ \E ip \in BOOLEAN :
           W3MonitorOnly([w3Monitor EXCEPT !.deviceIP = ip, !.clicks = @ + 1])

W3ToggleMonitoring ==
    /\ w3Monitor.clicks < MaxClicks
    /\ W3FetchBudget
    /\ LET m == [w3Monitor EXCEPT !.clicks = @ + 1]
       IN  W3MonitorOnly(IF m.isMonitoring THEN W3Stopped(m) ELSE W3StartMonitoring(m))

\* the interval timer calls fetchData
W3TimerTick ==
    /\ w3Monitor.timers # {}
    /\ W3FetchBudget
    /\ W3MonitorOnly(W3FetchDataStart(w3Monitor))

\* the device answers a fetch: fetchData resumes after its awaits
W3FetchCompletes ==
    /\ w3Monitor.fetching > 0
    /\ processed' = processed + 1
    /\ \E data \in W3Data, d \in Elapsed : W3ProcessData(data, d)
    /\ w3Monitor' = [w3Monitor EXCEPT !.fetching = @ - 1, !.connectionStatus = "connected"]
    /\ UNCHANGED <<serverVars, w2Vars, inflight>>

\* a fetch fails: the catch block of fetchData
W3FetchFails ==
    /\ w3Monitor.fetching > 0
    /\ W3MonitorOnly([w3Monitor EXCEPT !.fetching = @ - 1, !.connectionStatus = "error"])

NextW3Monitor ==
    \/ W3SaveConfiguration
    \/ W3ToggleMonitoring
    \/ W3TimerTick
    \/ W3FetchCompletes
    \/ W3FetchFails

SpecW3Monitor == Init /\ [][NextW3Monitor]_vars

(***************************************************************************)
(* The server under concurrent requests.  Requests reach the socket in any *)
(* order and wait; the event loop runs one handler at a time.  The POST    *)
(* handler is followed statement by statement: a request is "received"     *)
(* until its handler starts and "unshifted" between the unshift of line 69 *)
(* and the trim of lines 72-74.                                            *)
(***************************************************************************)
Request(op, data) == [op |-> op, data |-> data, pc |-> "received", entry |-> Null]

LoopBodies ==
    [name : {StrV("Alice"), StrV("")}, action : {StrV("in")},
     timestamp : {NumV(Num(1710000, 123))}]

LoopRequests ==
    {Request("POST", data) : data \in LoopBodies}
    \cup {Request("GET", Null), Request("DELETE", Null)}

\* mutant: the POST handler gives the event loop a turn after the unshift
HandlerYields_AfterUnshift(pc) == pc = "unshifted"

\* the handler yields to the event loop at position pc: never, the handlers
\* are synchronous functions without await or callback
HandlerYields(pc) == FALSE

\* the event loop may run request id: no other handler is in progress
CanRun(id) ==
    \A other \in DOMAIN inflight \ {id} :
        inflight[other].pc = "received" \/ HandlerYields(inflight[other].pc)

\* a request reaches the socket
Receive ==
    /\ Filled
    /\ requests < MaxRequests
    /\ requests' = requests + 1
    /\ \E r \in LoopRequests : inflight' = MapSet(inflight, requests + 1, r)
    /\ UNCHANGED <<latestData, res, arrived, deduped, held, piStatus, now, dashVars>>

\* POST /fingerprint-data, lines 35-69: validate, build the entry, unshift
LoopPostStart(id) ==
    LET data == inflight[id].data
        dateNow == NumPlus(now, 1)
        error == ValidationError(data)
        entry == MakeEntry(data, dateNow)
    IN  /\ inflight[id].op = "POST"
        /\ inflight[id].pc = "received"
        /\ CanRun(id)
        /\ now' = dateNow
        /\ IF error # ""
           THEN /\ res' = Response(400, error, Null, 0, <<>>)
                /\ inflight' = MapDelete(inflight, id)
                /\ UNCHANGED <<latestData, arrived, deduped>>
           ELSE /\ latestData' = Unshift(latestData, entry)
                /\ inflight' = [inflight EXCEPT ![id].pc = "unshifted", ![id].entry = entry]
                /\ UNCHANGED <<res, arrived, deduped>>
        /\ UNCHANGED <<requests, held, piStatus, dashVars>>

\* POST /fingerprint-data, lines 72-82: trim, respond
LoopPostFinish(id) ==
    LET entry == inflight[id].entry
    IN  /\ inflight[id].pc = "unshifted"
        /\ CanRun(id)
        /\ latestData' = TrimHistory(latestData)
        /\ res' = Response(200, "", JSONEntry(entry), 0, <<>>)
        /\ arrived' = Append(arrived, entry)
        /\ deduped' = DedupIngest(deduped, entry)
        /\ inflight' = MapDelete(inflight, id)
        /\ UNCHANGED <<now, requests, held, piStatus, dashVars>>

LoopGet(id) ==
    /\ inflight[id].op = "GET"
    /\ CanRun(id)
    /\ GetData(1)
    /\ inflight' = MapDelete(inflight, id)
    /\ UNCHANGED <<requests, dashVars>>

LoopDelete(id) ==
    /\ inflight[id].op = "DELETE"
    /\ CanRun(id)
    /\ DeleteData(1)
    /\ inflight' = MapDelete(inflight, id)
    /\ UNCHANGED <<requests, dashVars>>

PostStart == \E id \in DOMAIN inflight : LoopPostStart(id)

PostFinish == \E id \in DOMAIN inflight : LoopPostFinish(id)

Get == \E id \in DOMAIN inflight : LoopGet(id)

Delete == \E id \in DOMAIN inflight : LoopDelete(id)

NextLoop == FillIngest \/ Receive \/ PostStart \/ PostFinish \/ Get \/ Delete

SpecLoop == Init /\ [][NextLoop]_vars

(***************************************************************************)
(* One refresh of the website2 dashboard followed request by request:      *)
(* fetchData awaits GET /api/data, processes the batch, and then awaits    *)
(* GET /api/stats in fetchStatistics; other clients' requests reach the    *)
(* server between the two.  inflight[0] is the dashboard's GET /api/stats  *)
(* while it is awaited.                                                    *)
(***************************************************************************)
W2AwaitsStats == 0 \in DOMAIN inflight

\* fetchData up to the call of fetchStatistics
W2FetchDataStart(d) ==
    /\ now' = NumPlus(now, d)
    /\ res' = Response(200, "", Null, Len(latestData), JSONData(ListRecent))
    /\ held' = Snapshot(ListRecent)
    /\ W2ProcessDataBatch(held'.value, d)
    /\ inflight' = MapSet(inflight, 0, Request("GET /api/stats", Null))
    /\ UNCHANGED <<latestData, arrived, deduped, piStatus>>

\* fetchStatistics: the server answers, STATE.statistics = result.stats
W2FetchStatistics(d) ==
    /\ W2AwaitsStats
    /\ GetStats(d)
    /\ inflight' = MapDelete(inflight, 0)

RefreshStart ==
    /\ processed < MaxProcessed
    /\ ~W2AwaitsStats
    /\ processed' = processed + 1
    /\ \E d \in PollElapsed : W2FetchDataStart(d)
    /\ UNCHANGED <<requests, w3Vars, w2Monitor>>

RefreshFinish ==
    /\ \E d \in Elapsed : W2FetchStatistics(d)
    /\ UNCHANGED <<requests, dashVars>>

NextRefresh == PollIngest \/ PollClear \/ RefreshStart \/ RefreshFinish

SpecRefresh == Init /\ [][NextRefresh]_vars

(***************************************************************************)
(* Properties of the server ledger                                         *)
(***************************************************************************)
\* C1: in every state reachable by ingest and clear calls the retained
\* history latestData holds at most MAX_HISTORY = 100 events.
C1_HistoryBounded == Len(latestData) <= MAX_HISTORY

\* the history is full and an event has been evicted
C1_Witness == Len(latestData) = MAX_HISTORY /\ Len(arrived) > MAX_HISTORY

\* C2: after N > cap valid ingestions and no clear, listRecent() has exactly
\* cap elements: the last cap non-duplicate ingestions in reverse arrival order.
C2_LastCapNonDuplicates ==
    Len(arrived) > MAX_HISTORY =>
        /\ Len(ListRecent) = MAX_HISTORY
        /\ ListRecent = deduped

\* C3: ingesting a (name, action, timestamp) whose instant is within the
\* tolerance window of a retained event of the same name and action leaves
\* listRecent() as it was, and the call reports success.
C3_DuplicateIsNoOp ==
    [][\A data \in Bodies, d \in Elapsed :
          (/\ ValidationError(data) = ""
           /\ \E i \in 1..Len(latestData) :
                  SameIdentity(latestData[i], MakeEntry(data, now))
           /\ PostFingerprintData(data, d))
          => (latestData' = latestData /\ res'.status = 200)]_vars

\* C4: no two retained events have the same name, the same action and
\* occurredAt values less than the tolerance window apart.
C4_NoTwoShareIdentity ==
    \A i, j \in 1..Len(latestData) :
        i # j => ~SameIdentity(latestData[i], latestData[j])

\* C6: ingestion stores a numeric timestamp t as t * 1000 when
\* t < 10,000,000,000 and as t itself otherwise; 1710000000 is stored as
\* 1710000000000 and 1710000000123 unchanged.
C6_NumericTimestampNormalized ==
    [][\A data \in Bodies, d \in Elapsed :
          (/\ data.timestamp.type = "number"
           /\ PostFingerprintData(data, d)
           /\ res'.status = 200)
          => LET t == data.timestamp.num
                 stored == latestData'[1].timestamp
             IN  /\ stored.type = "number"
                 /\ NumLT(t, Num(10000, 0)) =>
                        /\ stored.num.hi = t.hi * 1000 + (t.lo \div 1000)
                        /\ stored.num.lo = (t.lo % 1000) * 1000
                 /\ ~NumLT(t, Num(10000, 0)) => stored.num = t
                 /\ t = Num(1710, 0) => stored.num = Num(1710000, 0)
                 /\ t = Num(1710000, 123) => stored.num = Num(1710000, 123)]_vars

\* 1710000000 was ingested and is held as 1710000000000 (no other input of
\* the model yields that instant), next to 10000000000 held unchanged
C6_Witness ==
    /\ Len(latestData) = 2
    /\ latestData[1].timestamp = NumV(Num(10000, 0))
    /\ latestData[2].timestamp = NumV(Num(1710000, 0))

\* a string that new Date() cannot parse
C7_Unparseable(timestamp) ==
    IsString(timestamp) /\ DateParse(timestamp.str) = NaN

C7_DashboardFallsBackToNow ==
    [][\A data \in W3Data, d \in Elapsed :
          (/\ Truthy(data.name)
           /\ Truthy(data.action)
           /\ data.time = Undefined
           /\ (data.timestamp = Undefined \/ C7_Unparseable(data.timestamp))
           /\ W3ProcessData(data, d))
          => w3History'[1].timestamp = NumV(now')]_vars

\* the bodies the claim C8 covers: name missing or empty, action missing,
\* action not one of "in" / "out"
C8_Covered(data) ==
    \/ data.name \in {Undefined, StrV("")}
    \/ data.action = Undefined
    \/ data.action \notin {StrV("in"), StrV("out")}

\* C8: ingestion fails with HTTP 400 whenever name is missing or empty,
\* action is missing, or action is not "in" / "out"; {name: "", action:
\* "in", timestamp: 123} and {name: "Bob", action: "left", timestamp: 123}
\* are both rejected.
C8_InvalidRejected ==
    /\ [name |-> StrV(""), action |-> StrV("in"), timestamp |-> NumV(Num(0, 123))] \in Bodies
    /\ [name |-> StrV("Bob"), action |-> StrV("left"), timestamp |-> NumV(Num(0, 123))] \in Bodies
    /\ [][\A data \in Bodies, d \in Elapsed :
              (C8_Covered(data) /\ PostFingerprintData(data, d))
              => (res'.status = 400 /\ res'.entry = Null)]_vars

\* an unrecognized action was rejected while the ledger held an event
C8_Witness ==
    /\ res.status = 400
    /\ res.error = "Invalid action. Must be \"in\" or \"out\""
    /\ Len(latestData) > 0

\* C9: an ingestion that fails validation leaves the retained history, its
\* order and every stored event exactly as they were.  (Only ingestion
\* answers 400.)
C9_RejectionLeavesLedger ==
    [][res'.status = 400 => latestData' = latestData]_vars

\* a missing field was rejected while the ledger held an event
C9_Witness ==
    /\ res.status = 400
    /\ res.error = "Invalid data format. Required: name, action, timestamp"
    /\ Len(latestData) = 1

\* C10: clear() always succeeds, leaves listRecent() empty and latest()
\* none, and reports a removed count equal to the history length
\* immediately before the call.
C10_ClearSemantics ==
    /\ [](\A d \in Elapsed : ENABLED DeleteData(d))
    /\ [][\A d \in Elapsed :
              DeleteData(d) =>
                  /\ res'.status = 200
                  /\ res'.count = Len(latestData)
                  /\ ListRecent' = <<>>
                  /\ Latest' = Null]_vars

\* a clear has just removed the one event held
C10_Witness == latestData = <<>> /\ res.status = 200 /\ res.count = 1

\* occurredAt lies in the local calendar day of asOf: from its midnight up
\* to but excluding the next midnight
C11_InDayOf(timestamp, asOf) ==
    /\ timestamp.type = "number"
    /\ NumLE(TodayStart(asOf), timestamp.num)
    /\ NumLT(timestamp.num, NumPlus(TodayStart(asOf), 86400000))

\* C11: statistics(asOf) returns signInsToday / signOutsToday equal to the
\* number of retained events of the matching action whose occurredAt lies
\* inside asOf's calendar day, so an event at 23:59:59 and one at 00:00:01
\* the next day are never counted in the same day's count.
C11_TodayCountsOnlyToday ==
    [][\A d \in StatsElapsed :
          GetStats(d) =>
              /\ res'.stats.signInsToday =
                     Cardinality({i \in 1..Len(latestData) :
                                     /\ latestData[i].action = StrV("in")
                                     /\ C11_InDayOf(latestData[i].timestamp, now')})
              /\ res'.stats.signOutsToday =
                     Cardinality({i \in 1..Len(latestData) :
                                     /\ latestData[i].action = StrV("out")
                                     /\ C11_InDayOf(latestData[i].timestamp, now')})]_vars

\* C12: statistics(asOf) returns entriesLast24h equal to the number of
\* retained events whose occurredAt lies in the trailing 24-hour window that
\* ends at asOf (asOf - 24h <= occurredAt <= asOf).
C12_Last24hWindow ==
    [][\A d \in StatsElapsed :
          GetStats(d) =>
              res'.stats.entriesLast24h =
                  Cardinality({i \in 1..Len(latestData) :
                                  /\ latestData[i].timestamp.type = "number"
                                  /\ NumLE(NumMinus(now', DayMs), latestData[i].timestamp.num)
                                  /\ NumLE(latestData[i].timestamp.num, now')})]_vars

\* C13: the three size views of the server agree and are bounded:
\* statistics().totalEntries, the count field of /api/data and
\* healthCheck().entriesStored all equal the current retained history
\* length, which never exceeds the cap however many events were ingested.
C13_SizeViewsAgree ==
    /\ [](/\ Len(latestData) <= MAX_HISTORY
          /\ "stats" \in DOMAIN res => res.stats.totalEntries <= MAX_HISTORY
          /\ "entriesStored" \in DOMAIN res => res.entriesStored <= MAX_HISTORY
          /\ res.count <= MAX_HISTORY)
    /\ [][\A d \in Elapsed :
              /\ GetStats(d) => res'.stats.totalEntries = Len(latestData')
              /\ GetData(d) => (res'.count = Len(latestData') /\ Len(res'.data) = res'.count)
              /\ GetHealth(d) => res'.entriesStored = Len(latestData')]_vars

\* more events were ingested than the cap, and the statistics report the cap
C13_Witness ==
    /\ Len(arrived) > MAX_HISTORY
    /\ "stats" \in DOMAIN res
    /\ res.stats.totalEntries = MAX_HISTORY

\* C14: after any sequence of ingest and clear calls, latest() returns the
\* event stored by the most recent successful non-duplicate ingestion since
\* the last clear, and returns none (null) exactly when the history is empty.
C14_LatestIsNewestNonDuplicate ==
    /\ Latest = (IF deduped = <<>> THEN Null ELSE deduped[1])
    /\ Latest = Null <=> latestData = <<>>

\* what does hold: latest() is the event of the most recent successful
\* ingestion since the last clear, a duplicate or not
C14_LatestIsNewestArrival ==
    /\ Latest = (IF arrived = <<>> THEN Null ELSE arrived[Len(arrived)])
    /\ Latest = Null <=> latestData = <<>>

\* C15: the server history is always ordered newest-first by ingestion
\* order: of two retained events the one ingested later sits at the smaller
\* index, however their occurredAt values compare.  (The retained events
\* are the last Len(latestData) arrivals, newest first.)
C15_NewestFirstByArrival ==
    /\ Len(latestData) <= Len(arrived)
    /\ \A i \in 1..Len(latestData) : latestData[i] = arrived[Len(arrived) - i + 1]

\* the history is full, an event has been evicted, and the newest event
\* carries an earlier occurredAt than the one ingested before it
C15_Witness ==
    /\ Len(arrived) > MAX_HISTORY
    /\ Len(latestData) = MAX_HISTORY
    /\ latestData[1].timestamp.type = "number"
    /\ latestData[2].timestamp.type = "number"
    /\ NumLT(latestData[1].timestamp.num, latestData[2].timestamp.num)

\* C16: a successful ingestion returns exactly the event record that was
\* stored: the returned entry has the submitted name and action, the
\* normalized (millisecond) timestamp and the server-assigned receivedAt,
\* and equals the element at the head of the history right after the call
\* (as res.json writes it: a NaN timestamp is null on the wire, in this
\* response and in that of GET /api/data alike).
C16_ReturnsStoredEntry ==
    [][\A data \in Bodies, d \in Elapsed :
          (PostFingerprintData(data, d) /\ res'.status = 200) =>
              /\ res'.entry = JSONEntry(latestData'[1])
              /\ res'.entry = JSONData(ListRecent')[1]
              /\ res'.entry.name = data.name
              /\ res'.entry.action = data.action
              /\ res'.entry.receivedAt = NumV(now')
              /\ latestData'[1].timestamp.type = "number" => res'.entry = latestData'[1]
              /\ data.timestamp = NumV(Num(1710, 0)) =>
                     res'.entry.timestamp = NumV(Num(1710000, 0))
              /\ data.timestamp = NumV(Num(1710000, 123)) =>
                     res'.entry.timestamp = NumV(Num(1710000, 123))
              /\ data.timestamp = StrV("2024-03-09T16:00:00.500Z") =>
                     res'.entry.timestamp = NumV(Num(1710000, 500))]_vars

\* the second ingestion, of epoch seconds 1710000000, has just been
\* answered with the stored record, which carries 1710000000000
C16_Witness ==
    /\ Len(latestData) = 2
    /\ res.status = 200
    /\ res.entry = latestData[1]
    /\ res.entry.receivedAt = NumV(now)
    /\ res.entry.timestamp = NumV(Num(1710000, 0))

\* C17: ingestion and clear are the only operations that change the
\* ledger: listRecent (/api/data), latest (/api/data/latest), statistics
\* (/api/stats) and healthCheck (/health) leave the retained history
\* unchanged in every state.
C17_ReadsLeaveLedger ==
    /\ [](\A d \in Elapsed :
             ENABLED GetData(d) /\ ENABLED GetLatest(d) /\ ENABLED GetStats(d) /\ ENABLED GetHealth(d))
    /\ [][\A d \in Elapsed :
              (GetData(d) \/ GetLatest(d) \/ GetStats(d) \/ GetHealth(d))
                  => latestData' = latestData]_vars
    /\ [][latestData' # latestData =>
              \/ \E data \in Bodies, d \in Elapsed : PostFingerprintData(data, d)
              \/ \E d \in Elapsed : DeleteData(d)]_vars

\* the statistics have just been read from a ledger that holds an event
C17_Witness ==
    /\ "stats" \in DOMAIN res
    /\ res.stats.totalEntries = 1
    /\ Len(latestData) = 1

\* the ledger as the completed handlers left it: the most recent
\* MAX_HISTORY events accepted since the last clear, newest first
C18_Committed ==
    LET n == IF Len(arrived) > MAX_HISTORY THEN MAX_HISTORY ELSE Len(arrived)
    IN  [i \in 1..n |-> arrived[Len(arrived) - i + 1]]

\* C18: under any interleaving of concurrent ingest, clear and read
\* requests each handler runs to completion as one atomic step: no read
\* ever observes an intermediate ledger state, such as a history of
\* cap + 1 events between the prepend and the trim.
C18_HandlersAtomic ==
    /\ [](Cardinality({id \in DOMAIN inflight : inflight[id].pc # "received"}) <= 1)
    /\ [](res.count <= MAX_HISTORY /\ Len(res.data) <= MAX_HISTORY)
    /\ [][\A id \in DOMAIN inflight :
              LoopGet(id) =>
                  /\ res'.data = JSONData(C18_Committed)
                  /\ res'.count = Len(C18_Committed)]_vars

\* the ledger holds cap + 1 events, between the unshift and the trim, while
\* a read waits for the event loop
C18_Witness ==
    /\ Len(latestData) = MAX_HISTORY + 1
    /\ \E id \in DOMAIN inflight : inflight[id].op = "GET"

\* C19: a retained event is never modified after it is created, and
\* between clears an event leaves the history only through the retention
\* trim, which always drops the oldest-ingested event first.  Every step
\* is a clear, or leaves the history alone, or puts one new event in front
\* of the events held before, unmodified and in their order, less the
\* oldest when the bound is exceeded; so the retained events are always
\* the most recently ingested ones.
C19_EvictOldestFirst ==
    /\ [](\A i \in 1..Len(latestData) :
             /\ Len(arrived) - i + 1 >= 1
             /\ latestData[i] = arrived[Len(arrived) - i + 1])
    /\ [][\/ \E d \in Elapsed : DeleteData(d)
           \/ latestData' = latestData
           \/ LET n == Len(latestData')
              IN  /\ n = (IF Len(latestData) + 1 > MAX_HISTORY
                          THEN MAX_HISTORY ELSE Len(latestData) + 1)
                  /\ SubSeq(latestData', 2, n) = SubSeq(latestData, 1, n - 1)
                  /\ arrived' = Append(arrived, latestData'[1])]_vars

\* two events have been evicted, the two ingested first; the oldest event
\* held is the third scan, as it was created
C19_Witness ==
    /\ Len(latestData) = MAX_HISTORY
    /\ Len(arrived) = MAX_HISTORY + 2
    /\ latestData[MAX_HISTORY] = arrived[3]
    /\ arrived[3] = MakeEntry(FillBody(3), NumPlus(NowStart, 3))

C5_HeadDecides(sessions, history) ==
    Len(history) > 0 =>
        LET e == history[1]
        IN  /\ e.action = StrV("in") =>
                /\ e.name \in DOMAIN sessions
                /\ sessions[e.name] = [name |-> e.name, startTime |-> e.timestamp]
            /\ e.action = StrV("out") => e.name \notin DOMAIN sessions

\* timestamp is a number of epoch milliseconds (above 10^12)
C5_IsMillis(timestamp) ==
    timestamp.type = "number" /\ NumLT(Num(1000000, 0), timestamp.num)

\* C5: after {Alice, in, t1} and then {Alice, out, t2} have been processed
\* the active-session map does not contain Alice; after only {Alice, in,
\* t1} it contains Alice with start time t1.  In both dashboards, for every
\* name: processing a sign-in puts the name in the Map with the event's
\* instant, processing a sign-out after it removes the name.
C5_SessionUpsertDelete ==
    /\ [](C5_HeadDecides(w3Sessions, w3History) /\ C5_HeadDecides(w2Sessions, w2History))
    /\ [][\A data \in W3Data, d \in Elapsed :
              (Truthy(data.name) /\ W3ProcessData(data, d)) =>
                  /\ (data.action = StrV("in") /\ C5_IsMillis(data.timestamp)) =>
                         /\ data.name \in DOMAIN w3Sessions'
                         /\ w3Sessions'[data.name].startTime = data.timestamp
                  /\ (data.action = StrV("in") /\ data.timestamp = NumV(Num(1710, 0))) =>
                         /\ data.name \in DOMAIN w3Sessions'
                         /\ w3Sessions'[data.name].startTime = NumV(Num(1710000, 0))
                  /\ data.action = StrV("out") => data.name \notin DOMAIN w3Sessions']_vars
    /\ [][\A data \in W2Data, d \in Elapsed :
              (Truthy(data.name) /\ W2ProcessDataBatch(<<data>>, d)) =>
                  /\ (/\ w2History = <<>>
                      /\ data.action = StrV("in")
                      /\ C5_IsMillis(data.timestamp)) =>
                         /\ data.name \in DOMAIN w2Sessions'
                         /\ w2Sessions'[data.name].startTime = data.timestamp
                  /\ (/\ Len(w2History) = 1
                      /\ w2History[1].name = data.name
                      /\ w2History[1].action = StrV("in")
                      /\ data.action = StrV("out")) =>
                         data.name \notin DOMAIN w2Sessions']_vars

\* website3 has processed {Alice, in, 1710000000123} and then {Alice, out, ...}
C5_Witness ==
    /\ Len(w3History) = 2
    /\ w3History[2].name = StrV("Alice")
    /\ w3History[2].action = StrV("in")
    /\ w3History[2].timestamp = NumV(Num(1710000, 123))
    /\ w3History[1].name = StrV("Alice")
    /\ w3History[1].action = StrV("out")
    /\ StrV("Alice") \notin DOMAIN w3Sessions

\* website2 has processed {Alice, in, 1710000000123} and then {Alice, out, ...}
C5_WitnessWebsite2 ==
    /\ Len(w2History) = 2
    /\ w2History[2].name = StrV("Alice")
    /\ w2History[2].action = StrV("in")
    /\ w2History[1].name = StrV("Alice")
    /\ w2History[1].action = StrV("out")
    /\ StrV("Alice") \notin DOMAIN w2Sessions

\* the sign-in alone: Alice is in the Map of website3 with start time t1
C5_WitnessSignedIn ==
    /\ Len(w3History) = 1
    /\ StrV("Alice") \in DOMAIN w3Sessions
    /\ w3Sessions[StrV("Alice")].startTime = NumV(Num(1710000, 123))

\* every session of the Map is held under its own name, so no two entries
\* of the Map are sessions of one name
C20_OnePerName(sessions) ==
    /\ \A k \in DOMAIN sessions : sessions[k].name = k
    /\ Cardinality({sessions[k].name : k \in DOMAIN sessions}) = Cardinality(DOMAIN sessions)

\* the instant website2 takes for an element of the data array: its
\* timestamp, or the time of processing when the timestamp is null
C20_InstantOf(data, dateNow) ==
    IF data.timestamp.type = "number" THEN data.timestamp ELSE NumV(dateNow)

\* C20: the active-session map holds at most one entry per name, and
\* processing a non-duplicate SignedIn for a name that already has an entry
\* overwrites its start time with the timestamp of the sign-in just
\* processed.  In both dashboards; website3 suppresses no duplicate.
C20_OneSessionPerName ==
    /\ [](C20_OnePerName(w3Sessions) /\ C20_OnePerName(w2Sessions))
    /\ [][\A data \in W3Data, d \in Elapsed :
              (/\ Truthy(data.name)
               /\ ToLowerCase(data.action.str) = "in"
               /\ data.name \in DOMAIN w3Sessions
               /\ W3ProcessData(data, d)) =>
                  /\ DOMAIN w3Sessions' = DOMAIN w3Sessions
                  /\ w3Sessions'[data.name].startTime = w3History'[1].timestamp
                  /\ C5_IsMillis(data.timestamp) =>
                         w3Sessions'[data.name].startTime = data.timestamp
                  /\ data.timestamp = NumV(Num(1710, 0)) =>
                         w3Sessions'[data.name].startTime = NumV(Num(1710000, 0))]_vars
    /\ [][\A data \in W2Data, d \in Elapsed :
              (/\ Truthy(data.name)
               /\ data.action = StrV("in")
               /\ data.name \in DOMAIN w2Sessions
               /\ \A i \in 1..Len(w2History) :
                      ~(/\ w2History[i].name = data.name
                        /\ w2History[i].action = data.action
                        /\ w2History[i].timestamp.type = "number"
                        /\ NumLT(NumAbsDiff(w2History[i].timestamp.num,
                                            C20_InstantOf(data, now').num),
                                 Num(0, 1000)))
               /\ W2ProcessDataBatch(<<data>>, d)) =>
                  /\ DOMAIN w2Sessions' = DOMAIN w2Sessions
                  /\ w2Sessions'[data.name].startTime = C20_InstantOf(data, now')
                  /\ w2Sessions'[data.name].startTime = w2History'[1].timestamp]_vars

\* website3 has processed two sign-ins of Alice, 1710000000123 and then
\* the earlier 1710000000000; her one session starts at the second
C20_Witness ==
    /\ Len(w3History) = 2
    /\ w3History[2].timestamp = NumV(Num(1710000, 123))
    /\ w3History[1].timestamp = NumV(Num(1710000, 0))
    /\ w3History[1].action = StrV("in")
    /\ w3History[2].action = StrV("in")
    /\ DOMAIN w3Sessions = {StrV("Alice")}
    /\ w3Sessions[StrV("Alice")].startTime = NumV(Num(1710000, 0))

\* website2 has processed two sign-ins of Alice a second apart; her one
\* session starts at the second
C20_WitnessWebsite2 ==
    /\ Len(w2History) = 2
    /\ w2History[2].timestamp = NumV(Num(1710000, 123))
    /\ w2History[1].timestamp = NumV(Num(1710000, 1123))
    /\ DOMAIN w2Sessions = {StrV("Alice")}
    /\ w2Sessions[StrV("Alice")].startTime = NumV(Num(1710000, 1123))

\* the step processes, in website3, a sign-out of name
C21_W3SignedOut(name) ==
    \E data \in W3Data \cup {W3FillData(i) : i \in 1..DISPLAY_LIMIT}, d \in Elapsed :
        /\ data.name = name
        /\ ToLowerCase(data.action.str) = "out"
        /\ W3ProcessData(data, d)

\* the step processes, in website2, a batch that holds a sign-out of name
C21_W2SignedOut(name) ==
    \E dataArray \in W2Batches \cup {<<W2FillData(i)>> : i \in 1..DISPLAY_LIMIT}, d \in Elapsed :
        /\ \E i \in 1..Len(dataArray) :
               dataArray[i].name = name /\ dataArray[i].action = StrV("out")
        /\ W2ProcessDataBatch(dataArray, d)

\* C21: an active-session entry has no expiry: once a name is in the
\* active-session map it stays there across every later operation (further
\* sign-ins of any name, sign-outs of other names, history trims, polls)
\* until a SignedOut for that same name is processed.  (clearActivity of
\* website2, which empties the Map on the user's request, is not one of
\* these operations.)
C21_NoExpiry ==
    /\ [][\A name \in DOMAIN w3Sessions :
              name \in DOMAIN w3Sessions' \/ C21_W3SignedOut(name)]_vars
    /\ [][\A name \in DOMAIN w2Sessions :
              \/ name \in DOMAIN w2Sessions'
              \/ C21_W2SignedOut(name)
              \/ W2ClearActivity]_vars

\* Carol is active in both dashboards although the trim has dropped her
\* sign-in, the oldest entry, from both display histories
C21_Witness ==
    /\ StrV("Carol") \in DOMAIN w3Sessions
    /\ StrV("Carol") \in DOMAIN w2Sessions
    /\ Len(w3History) = DISPLAY_LIMIT
    /\ Len(w2History) = DISPLAY_LIMIT
    /\ \A i \in 1..DISPLAY_LIMIT :
           w3History[i].name # StrV("Carol") /\ w2History[i].name # StrV("Carol")

\* C23: the display-side cache is bounded independently of the ledger: in
\* both dashboard variants STATE.activityHistory never holds more than 50
\* entries after any sequence of processed events and polls.
C23_DisplayHistoryBounded ==
    Len(w3History) <= DISPLAY_LIMIT /\ Len(w2History) <= DISPLAY_LIMIT

\* both dashboards have processed 51 entries and hold the 50 newest: the
\* oldest entry held is the second one processed
C23_Witness ==
    /\ w3Statistics.totalEntries = DISPLAY_LIMIT + 1
    /\ Len(w3History) = DISPLAY_LIMIT
    /\ w3History[DISPLAY_LIMIT].timestamp = NumV(Num(1709000, 2000))
    /\ Len(w2History) = DISPLAY_LIMIT
    /\ w2History[DISPLAY_LIMIT].timestamp = NumV(Num(1709000, 2000))
    /\ w2History[1].name \in {StrV("Alice"), StrV("Bob")}

\* the entries of history whose action is one of actions
C24_CountOf(history, actions) ==
    Cardinality({i \in 1..Len(history) : history[i].action \in actions})

\* C24: every statistic is a function of the currently retained history
\* only: the website3 dashboard's counters totalEntries, signInsToday and
\* signOutsToday never count an entry that has been evicted from or cleared
\* out of its activityHistory, so totalEntries never exceeds the
\* activityHistory bound.
C24_CountersOfRetainedOnly ==
    /\ w3Statistics.totalEntries = Len(w3History)
    /\ w3Statistics.signInsToday = C24_CountOf(w3History, {StrV("in")})
    /\ w3Statistics.signOutsToday = C24_CountOf(w3History, {StrV("out")})
    /\ w3Statistics.totalEntries <= DISPLAY_LIMIT

\* what does hold: the counters count every entry processed since the page
\* was loaded, and are at least the counts of the retained entries
C24_CountersNeverBelowRetained ==
    /\ w3Statistics.totalEntries >= Len(w3History)
    /\ w3Statistics.signInsToday >= C24_CountOf(w3History, {StrV("in")})
    /\ w3Statistics.signOutsToday >= C24_CountOf(w3History, {StrV("out")})

\* C25: clearing the dashboard empties the display history and the
\* active-session map together: after clearActivity in either dashboard
\* variant, STATE.activityHistory is empty and STATE.activeSessions is empty.
C25_ClearEmptiesBoth ==
    [][/\ W3Clear => (w3History' = <<>> /\ w3Sessions' = EmptyMap)
       /\ W2Clear => (w2History' = <<>> /\ w2Sessions' = EmptyMap)]_vars

\* what does hold: website2 empties both, website3 empties the display
\* history and leaves the Map and the counters as they were
C25_ClearOfEachDashboard ==
    [][/\ W3Clear => (w3History' = <<>> /\ w3Sessions' = w3Sessions
                                        /\ w3Statistics' = w3Statistics)
       /\ W2Clear => (w2History' = <<>> /\ w2Sessions' = EmptyMap)]_vars

\* the names whose most recently ingested retained server event is a sign-in
C26_ActiveOnServer ==
    {latestData[i].name : i \in {k \in 1..Len(latestData) :
        /\ latestData[k].action = StrV("in")
        /\ \A j \in 1..(k - 1) : latestData[j].name # latestData[k].name}}

\* C26: after every completed poll of the website2 dashboard the
\* dashboard's active-session set equals the set of names whose most
\* recently ingested retained server event is a sign-in; a name whose
\* sign-in and later sign-out are first seen in the same poll is not shown
\* as active.
C26_SessionsFollowServer ==
    [][processed' # processed => DOMAIN w2Sessions' = C26_ActiveOnServer']_vars

\* name and action of the first n entries of a history
C27_NamesAndActions(history, n) ==
    [i \in 1..n |-> <<history[i].name, history[i].action>>]

\* C27: after every completed poll of the website2 dashboard,
\* STATE.activityHistory lists the server's retained events newest-first:
\* it is the newest-first prefix of the server history, up to the display
\* bound.
C27_HistoryFollowsServer ==
    [][processed' # processed =>
          LET n == IF Len(latestData') > DISPLAY_LIMIT THEN DISPLAY_LIMIT ELSE Len(latestData')
          IN  /\ Len(w2History') = n
              /\ C27_NamesAndActions(w2History', n) = C27_NamesAndActions(latestData', n)]_vars

\* C28: polling is idempotent in the website2 dashboard: when the server
\* history does not change between two consecutive successful polls,
\* STATE.activityHistory and STATE.activeSessions after the second poll
\* equal their values after the first.
C28_PollIdempotent ==
    [][(/\ processed' # processed
        /\ processed >= 1
        /\ held.value = JSONData(latestData))
       => (w2History' = w2History /\ w2Sessions' = w2Sessions)]_vars

\* milliseconds between the timestamps of two entries, both numbers
C29_Apart(e, f) == NumAbsDiff(e.timestamp.num, f.timestamp.num)

\* C29: in every reachable state of the website2 dashboard,
\* STATE.activityHistory contains no two entries with the same name, the
\* same action and timestamps differing by strictly less than 1000 ms; an
\* entry exactly 1000 ms away from an existing one is accepted as new.
C29_NoNearDuplicates ==
    /\ [](\A i, j \in 1..Len(w2History) :
             (/\ i # j
              /\ w2History[i].name = w2History[j].name
              /\ w2History[i].action = w2History[j].action
              /\ w2History[i].timestamp.type = "number"
              /\ w2History[j].timestamp.type = "number")
             => ~NumLT(C29_Apart(w2History[i], w2History[j]), Num(0, 1000)))
    /\ [][\A data \in W2Data, d \in Elapsed :
              (/\ Truthy(data.name)
               /\ data.timestamp.type = "number"
               /\ \E i \in 1..Len(w2History) :
                      /\ w2History[i].name = data.name
                      /\ w2History[i].action = data.action
                      /\ w2History[i].timestamp.type = "number"
                      /\ C29_Apart(w2History[i], data) = Num(0, 1000)
               /\ \A i \in 1..Len(w2History) :
                      (/\ w2History[i].name = data.name
                       /\ w2History[i].action = data.action
                       /\ w2History[i].timestamp.type = "number")
                      => ~NumLT(C29_Apart(w2History[i], data), Num(0, 1000))
               /\ W2ProcessDataBatch(<<data>>, d))
              => /\ Len(w2History') = Len(w2History) + 1
                 /\ w2History'[1].name = data.name
                 /\ w2History'[1].timestamp = data.timestamp]_vars

\* the display history holds two sign-ins of Alice exactly 1000 ms apart
C29_Witness ==
    /\ Len(w2History) = 2
    /\ w2History[1].name = w2History[2].name
    /\ w2History[1].action = w2History[2].action
    /\ w2History[2].timestamp = NumV(Num(1710000, 123))
    /\ w2History[1].timestamp = NumV(Num(1710000, 1123))

\* C30: in the website2 dashboard at most one polling timer is live at any
\* time and none is live while CONFIG.isMonitoring is false, under every
\* interleaving of init's delayed auto-start, toggleMonitoring clicks and
\* saveConfiguration's delayed restart; hence after stopMonitoring no
\* further timer-driven poll is issued until monitoring is started again.
C30_AtMostOneTimer ==
    /\ Cardinality(w2Monitor.timers) <= 1
    /\ ~w2Monitor.isMonitoring => w2Monitor.timers = {}

\* what does hold: the timer STATE.updateInterval names is live, and it is
\* the one set last
C30_UpdateIntervalIsLive ==
    /\ w2Monitor.updateInterval # 0 =>
           /\ w2Monitor.updateInterval \in w2Monitor.timers
           /\ w2Monitor.updateInterval = w2Monitor.nextId - 1
    /\ w2Monitor.isMonitoring <=> w2Monitor.updateInterval # 0

\* C35: action matching at ingestion is case-insensitive: a submission with
\* a name, a timestamp and an action that is "in" or "out" in any letter
\* case ("IN", "Out") is accepted and stored as the corresponding sign-in /
\* sign-out rather than rejected.
C35_ActionCaseInsensitive ==
    /\ [name |-> StrV("Alice"), action |-> StrV("IN"), timestamp |-> NumV(Num(0, 123))] \in Bodies
    /\ [][\A data \in Bodies, d \in Elapsed :
              (/\ Truthy(data.name)
               /\ Truthy(data.timestamp)
               /\ IsString(data.action)
               /\ ToLowerCase(data.action.str) \in {"in", "out"}
               /\ PostFingerprintData(data, d))
              => (/\ res'.status = 200
                  /\ Len(latestData') = Len(latestData) + 1
                  /\ latestData'[1].action = StrV(ToLowerCase(data.action.str)))]_vars

\* what does hold: the match is exact, an action in another letter case is
\* answered 400 and the ledger is left as it was
C35_ActionCaseSensitive ==
    [][\A data \in Bodies, d \in Elapsed :
          (/\ Truthy(data.name)
           /\ Truthy(data.timestamp)
           /\ IsString(data.action)
           /\ data.action.str \notin {"in", "out"}
           /\ ToLowerCase(data.action.str) \in {"in", "out"}
           /\ PostFingerprintData(data, d))
          => (/\ res'.status = 400
              /\ res'.error = "Invalid action. Must be \"in\" or \"out\""
              /\ latestData' = latestData)]_vars

\* C33: for every numeric timestamp input, the website3 dashboard's
\* parseTimestamp yields the same instant as the server's ingestion
\* normalization: values below 10,000,000,000 are read as epoch seconds and
\* all other values as epoch milliseconds.
C33_SameInstantAsServer ==
    [][\A data \in ParseData, d \in Elapsed :
          (processed' # processed /\ W3ProcessData(data, d))
          => (/\ w3History'[1].timestamp = NormalizeTimestamp(data.timestamp)
              /\ w3History'[1].timestamp =
                    IF NumLT(data.timestamp.num, Num(10000, 0))
                    THEN NumV(NumTimes1000(data.timestamp.num))
                    ELSE data.timestamp)]_vars

\* what does hold: the two agree above 1,000,000,000; at and below it
\* parseTimestamp reads the number as epoch milliseconds
C33_SameInstantAboveE9 ==
    [][\A data \in ParseData, d \in Elapsed :
          (processed' # processed /\ W3ProcessData(data, d))
          => w3History'[1].timestamp =
                IF NumLT(Num(1000, 0), data.timestamp.num)
                THEN NormalizeTimestamp(data.timestamp)
                ELSE data.timestamp]_vars

\* C32: after the website2 dashboard's clearActivity the display stays
\* cleared until the server ingests a new event: a later poll of an
\* unchanged server history adds nothing to STATE.activityHistory or
\* STATE.activeSessions, while the server's own history is left untouched by
\* clearActivity.
C32_StaysClearedUntilIngest ==
    /\ [][PollW2Clear => latestData' = latestData]_vars
    /\ [][(/\ processed' # processed
           /\ processed >= 1
           /\ w2History = <<>> /\ w2Sessions = EmptyMap
           /\ held.value = JSONData(latestData))
          => (w2History' = <<>> /\ w2Sessions' = EmptyMap)]_vars

\* what does hold: clearActivity leaves the server's history untouched, and
\* the poll after it shows the server history again
C32_ClearedDisplayRefills ==
    /\ [][PollW2Clear => latestData' = latestData]_vars
    /\ [][(/\ processed' # processed
           /\ w2History = <<>> /\ w2Sessions = EmptyMap
           /\ Len(latestData) > 0)
          => Len(w2History') > 0]_vars

\* C34: after one dashboard refresh (fetchData: GET /api/data followed by
\* GET /api/stats) completes, the displayed statistics and the processed
\* activity batch describe the same server state: STATE.statistics
\* .totalEntries equals the count of the history that was fetched, even when
\* ingest or clear requests reach the server during the refresh.
C34_StatsMatchFetchedBatch ==
    [][(W2AwaitsStats /\ ~W2AwaitsStats')
       => res'.stats.totalEntries = Len(held'.value)]_vars

\* what does hold: the two agree when the server history at the second
\* request is the one the first request returned
C34_StatsMatchWhenServerQuiet ==
    [][(W2AwaitsStats /\ ~W2AwaitsStats' /\ held.value = JSONData(latestData))
       => res'.stats.totalEntries = Len(held'.value)]_vars

\* C36: the device command bit piStatus is 0 or 1 in every reachable state:
\* POST /pi-status with status 0 or 1 sets it to that value, any other
\* status is rejected with 400 and leaves it unchanged, and GET /pi-status
\* returns the last value set by a successful POST (0 initially).
C36_PiStatusIsBit ==
    /\ [](piStatus \in {0, 1})
    /\ [](res = NoResponse => piStatus = 0)
    /\ [][\A status \in PiStatuses :
              (requests' # requests /\ PostPiStatus(status))
              => IF status \in {NumV(Num(0, 0)), NumV(Num(0, 1))}
                 THEN /\ piStatus' = status.num.lo
                      /\ res' = PiStatusSet(status.num.lo)
                 ELSE /\ piStatus' = piStatus
                      /\ res'.status = 400]_vars
    /\ [][piStatus' # piStatus
          => \E value \in {0, 1} : piStatus' = value /\ res' = PiStatusSet(value)]_vars
    /\ [][(requests' # requests /\ GetPiStatus)
          => (res' = PiStatusRead(piStatus) /\ piStatus' = piStatus)]_vars

\* the bit was set to 1 and a POST with another status was then rejected
C36_Witness ==
    /\ piStatus = 1
    /\ requests = 2
    /\ res = PiStatusRejected

\* the bit was set to 1 and then read
C36_WitnessRead ==
    /\ requests = 2
    /\ res = PiStatusRead(1)

\* monitoring was started at some time and is stopped now
C31_StopHasRun(m) == ~m.isMonitoring /\ m.nextId > 1

\* C31: once stopMonitoring has run, the dashboard stays stopped until
\* monitoring is started again: the connection status remains
\* "disconnected" and no entry is added to activityHistory or
\* activeSessions, even when a fetch that was already in flight at the time
\* of the stop completes afterwards.
C31_StaysStopped ==
    /\ [][(w3Monitor.isMonitoring /\ ~w3Monitor'.isMonitoring)
          => w3Monitor'.connectionStatus = "disconnected"]_vars
    /\ [][(C31_StopHasRun(w3Monitor) /\ C31_StopHasRun(w3Monitor'))
          => (/\ w3Monitor'.connectionStatus = "disconnected"
              /\ w3History' = w3History
              /\ w3Sessions' = w3Sessions)]_vars

\* what does hold: stopMonitoring sets the badge to Disconnected and clears
\* the timer, and no fetch is sent while monitoring is stopped
C31_NoFetchSentWhileStopped ==
    /\ [][(w3Monitor.isMonitoring /\ ~w3Monitor'.isMonitoring)
          => (/\ w3Monitor'.connectionStatus = "disconnected"
              /\ w3Monitor'.timers = {})]_vars
    /\ [][(~w3Monitor.isMonitoring /\ ~w3Monitor'.isMonitoring)
          => w3Monitor'.fetching <= w3Monitor.fetching]_vars

====
